---------------------------- MODULE Spec2Model ----------------------------
(***************************************************************************)
(* Currency inventory ledger: the Express routes (buy, sell, reset) over   *)
(* the in-memory store MemStorage.  Every amount, rate, price and profit   *)
(* is a JavaScript Number, i.e. an IEEE-754 binary64 value; the arithmetic *)
(* of the handlers is modelled bit for bit (round to nearest, ties to      *)
(* even) on arbitrary-precision significands kept as sequences of limbs.   *)
(* Exponent overflow, subnormals, NaN and Infinity are outside the values  *)
(* the bounded inputs can produce and are not represented.                 *)
(***************************************************************************)
EXTENDS Integers, Sequences, FiniteSets, TLC

(***************************************************************************)
(* Natural numbers of any size: little-endian sequences of limbs, without  *)
(* high zero limbs; <<>> is zero.                                          *)
(***************************************************************************)
LimbBits == 14
LimbBase == 2 ^ LimbBits
Precision == 53

RECURSIVE Pow2(_)
Pow2(n) == IF n = 0 THEN 1 ELSE 2 * Pow2(n - 1)

RECURSIVE BTrim(_)
BTrim(s) ==
  IF s = <<>> THEN <<>>
  ELSE IF s[Len(s)] = 0 THEN BTrim(SubSeq(s, 1, Len(s) - 1)) ELSE s

RECURSIVE BFromNat(_)
BFromNat(n) ==
  IF n = 0 THEN <<>> ELSE <<n % LimbBase>> \o BFromNat(n \div LimbBase)

BLimb(a, i) == IF i <= Len(a) THEN a[i] ELSE 0

RECURSIVE BAddFrom(_, _, _, _)
BAddFrom(a, b, i, c) ==
  IF i > Len(a) /\ i > Len(b)
  THEN (IF c = 0 THEN <<>> ELSE <<c>>)
  ELSE LET t == BLimb(a, i) + BLimb(b, i) + c
       IN  <<t % LimbBase>> \o BAddFrom(a, b, i + 1, t \div LimbBase)

BAdd(a, b) == BAddFrom(a, b, 1, 0)

RECURSIVE BSubFrom(_, _, _, _)
BSubFrom(a, b, i, c) ==
  IF i > Len(a) THEN <<>>
  ELSE LET t == a[i] - BLimb(b, i) - c
       IN  IF t < 0 THEN <<t + LimbBase>> \o BSubFrom(a, b, i + 1, 1)
                    ELSE <<t>> \o BSubFrom(a, b, i + 1, 0)

\* a - b, for a >= b
BSub(a, b) == BTrim(BSubFrom(a, b, 1, 0))

RECURSIVE BCmpFrom(_, _, _)
BCmpFrom(a, b, i) ==
  IF i = 0 THEN 0
  ELSE IF a[i] < b[i] THEN -1
  ELSE IF a[i] > b[i] THEN 1
  ELSE BCmpFrom(a, b, i - 1)

\* -1, 0 or 1 as a < b, a = b, a > b
BCmp(a, b) ==
  IF Len(a) < Len(b) THEN -1
  ELSE IF Len(a) > Len(b) THEN 1
  ELSE BCmpFrom(a, b, Len(a))

RECURSIVE BMulSmallFrom(_, _, _, _)
BMulSmallFrom(a, k, i, c) ==
  IF i > Len(a) THEN (IF c = 0 THEN <<>> ELSE <<c>>)
  ELSE LET t == a[i] * k + c
       IN  <<t % LimbBase>> \o BMulSmallFrom(a, k, i + 1, t \div LimbBase)

\* a * k, for 0 <= k < LimbBase
BMulSmall(a, k) == IF k = 0 THEN <<>> ELSE BMulSmallFrom(a, k, 1, 0)

BShiftLimbs(a, n) == IF a = <<>> THEN <<>> ELSE [i \in 1..n |-> 0] \o a

RECURSIVE BMul(_, _)
BMul(a, b) ==
  IF a = <<>> \/ b = <<>> THEN <<>>
  ELSE BAdd(BMulSmall(a, b[1]), BShiftLimbs(BMul(a, Tail(b)), 1))

RECURSIVE BitLenSmall(_)
BitLenSmall(n) == IF n = 0 THEN 0 ELSE 1 + BitLenSmall(n \div 2)

BBitLen(a) ==
  IF a = <<>> THEN 0 ELSE LimbBits * (Len(a) - 1) + BitLenSmall(a[Len(a)])

\* a * 2^n
BShl(a, n) == BShiftLimbs(BMulSmall(a, Pow2(n % LimbBits)), n \div LimbBits)

\* floor(a / 2^n)
BShr(a, n) ==
  LET q == n \div LimbBits
      r == n % LimbBits
      d == IF q >= Len(a) THEN <<>> ELSE SubSeq(a, q + 1, Len(a))
  IN  BTrim([i \in 1..Len(d) |->
               (d[i] \div Pow2(r)) + (BLimb(d, i + 1) % Pow2(r)) * Pow2(LimbBits - r)])

\* a mod 2^n
BLow(a, n) ==
  LET q == n \div LimbBits
      r == n % LimbBits
  IN  IF q >= Len(a) THEN a
      ELSE BTrim(SubSeq(a, 1, q) \o <<a[q + 1] % Pow2(r)>>)

RECURSIVE TrailingZerosSmall(_)
TrailingZerosSmall(n) == IF n % 2 = 1 THEN 0 ELSE 1 + TrailingZerosSmall(n \div 2)

RECURSIVE BTrailingZerosFrom(_, _)
BTrailingZerosFrom(a, i) ==
  IF a[i] = 0 THEN LimbBits + BTrailingZerosFrom(a, i + 1)
  ELSE TrailingZerosSmall(a[i])

\* the number of low zero bits of a > 0
BTrailingZeros(a) == BTrailingZerosFrom(a, 1)

(***************************************************************************)
(* A Number is [sgn, man, exp]: the value (-1)^sgn * man * 2^exp with man  *)
(* odd (or zero, with exp 0), so that equal values are equal records.      *)
(***************************************************************************)
Canon(s, m, e) ==
  IF m = <<>> THEN [sgn |-> s, man |-> <<>>, exp |-> 0]
  ELSE LET z == BTrailingZeros(m)
       IN  [sgn |-> s, man |-> BShr(m, z), exp |-> e + z]

\* The binary64 value nearest to (-1)^s * (m + f) * 2^e, where 0 < f < 1 when
\* sticky and f = 0 otherwise: round to nearest, ties to even.
Round(s, m, e, sticky) ==
  LET len == BBitLen(m)
  IN  IF len <= Precision THEN Canon(s, m, e)
      ELSE LET sh   == len - Precision
               q    == BShr(m, sh)
               rem  == BLow(m, sh)
               half == BShl(<<1>>, sh - 1)
               c    == BCmp(rem, half)
               up   == \/ c = 1
                       \/ c = 0 /\ sticky
                       \/ c = 0 /\ ~sticky /\ q[1] % 2 = 1
           IN  Canon(s, IF up THEN BAdd(q, <<1>>) ELSE q, e + sh)

IsZero(x) == x.man = <<>>

FromInt(n) == Canon(IF n < 0 THEN 1 ELSE 0, BFromNat(IF n < 0 THEN -n ELSE n), 0)

FNeg(x) == [x EXCEPT !.sgn = 1 - x.sgn]

\* -1, 0, 1 as |x| < |y|, |x| = |y|, |x| > |y|
MagCmp(x, y) ==
  IF IsZero(x) THEN (IF IsZero(y) THEN 0 ELSE -1)
  ELSE IF IsZero(y) THEN 1
  ELSE LET tx == x.exp + BBitLen(x.man)
           ty == y.exp + BBitLen(y.man)
           e  == IF x.exp < y.exp THEN x.exp ELSE y.exp
       IN  IF tx < ty THEN -1
           ELSE IF tx > ty THEN 1
           ELSE BCmp(BShl(x.man, x.exp - e), BShl(y.man, y.exp - e))

\* x < y
FLt(x, y) ==
  IF IsZero(x) /\ IsZero(y) THEN FALSE
  ELSE IF x.sgn # y.sgn THEN x.sgn = 1 /\ ~(IsZero(x) /\ IsZero(y))
  ELSE IF x.sgn = 0 THEN MagCmp(x, y) = -1
  ELSE MagCmp(x, y) = 1

\* x == y in the sense of JavaScript's === on Numbers (+0 equals -0)
FEq(x, y) == (IsZero(x) /\ IsZero(y)) \/ x = y

\* x > 0
FPos(x) == ~IsZero(x) /\ x.sgn = 0

\* x + y
FAdd(x, y) ==
  IF IsZero(x) /\ IsZero(y)
  THEN [sgn |-> IF x.sgn = 1 /\ y.sgn = 1 THEN 1 ELSE 0, man |-> <<>>, exp |-> 0]
  ELSE IF IsZero(x) THEN y
  ELSE IF IsZero(y) THEN x
  ELSE LET e  == IF x.exp < y.exp THEN x.exp ELSE y.exp
           mx == BShl(x.man, x.exp - e)
           my == BShl(y.man, y.exp - e)
           c  == BCmp(mx, my)
       IN  IF x.sgn = y.sgn THEN Round(x.sgn, BAdd(mx, my), e, FALSE)
           ELSE IF c = 0 THEN [sgn |-> 0, man |-> <<>>, exp |-> 0]
           ELSE IF c = 1 THEN Round(x.sgn, BSub(mx, my), e, FALSE)
           ELSE Round(y.sgn, BSub(my, mx), e, FALSE)

\* x - y
FSub(x, y) == FAdd(x, FNeg(y))

\* x * y
FMul(x, y) ==
  LET s == IF x.sgn = y.sgn THEN 0 ELSE 1
  IN  Round(s, BMul(x.man, y.man), x.exp + y.exp, FALSE)

\* The largest digit q in lo..hi with d * q <= r (d * lo <= r is given)
RECURSIVE DigitSearch(_, _, _, _)
DigitSearch(r, d, lo, hi) ==
  IF lo = hi THEN lo
  ELSE LET mid == (lo + hi + 1) \div 2
       IN  IF BCmp(BMulSmall(d, mid), r) <= 0
           THEN DigitSearch(r, d, mid, hi)
           ELSE DigitSearch(r, d, lo, mid - 1)

\* Long division of the limbs n[i], ..., n[1] into d > 0, with r the running
\* remainder and q the quotient limbs found so far: <<quotient, remainder>>
RECURSIVE BDivFrom(_, _, _, _, _)
BDivFrom(n, d, i, r, q) ==
  IF i = 0 THEN <<BTrim(q), r>>
  ELSE LET r1  == BTrim(<<n[i]>> \o r)
           dig == DigitSearch(r1, d, 0, LimbBase - 1)
       IN  BDivFrom(n, d, i - 1, BSub(r1, BMulSmall(d, dig)), <<dig>> \o q)

BDivMod(n, d) == BDivFrom(n, d, Len(n), <<>>, <<>>)

\* x / y, for y # 0: the quotient of the significands is taken to at least
\* Precision + 3 bits, the remainder deciding the rounding as a sticky bit
FDiv(x, y) ==
  LET s == IF x.sgn = y.sgn THEN 0 ELSE 1
  IN  IF IsZero(x) THEN [sgn |-> s, man |-> <<>>, exp |-> 0]
      ELSE LET lx == BBitLen(x.man)
               ly == BBitLen(y.man)
               k  == IF Precision + 3 + ly - lx > 0 THEN Precision + 3 + ly - lx ELSE 0
               qr == BDivMod(BShl(x.man, k), y.man)
           IN  Round(s, qr[1], x.exp - y.exp - k, qr[2] # <<>>)

\* Number(s) for the decimal literal n / 10^k
Dec(n, k) == FDiv(FromInt(n), FromInt(10 ^ k))

\* Number(x.toString()): the shortest decimal string of a Number reads back as
\* the same Number, except that -0 prints as "0"
NumStr(x) == IF IsZero(x) THEN [sgn |-> 0, man |-> <<>>, exp |-> 0] ELSE x

(***************************************************************************)
(* The store (MemStorage) and the requests in flight.                      *)
(***************************************************************************)
VARIABLES
  currencies,            \* MemStorage.currencies: id -> Currency
  inventoryItems,        \* MemStorage.inventoryItems: id -> Inventory
  transactionsList,      \* MemStorage.transactionsList: id -> Transaction
  stats,                 \* MemStorage.stats: date -> DailyStats
  currencyCurrentId,
  inventoryCurrentId,
  transactionCurrentId,
  statsCurrentId,
  req,                   \* per client: the handler's position and locals
  started                \* history: how many requests have been accepted

store == <<currencies, inventoryItems, transactionsList, stats,
           currencyCurrentId, inventoryCurrentId, transactionCurrentId,
           statsCurrentId>>
vars == <<currencies, inventoryItems, transactionsList, stats,
          currencyCurrentId, inventoryCurrentId, transactionCurrentId,
          statsCurrentId, req, started>>

\* Bounds of the model
NumClients == 2
MaxRequests == 3

Clients == 1..NumClients

\* JavaScript's undefined, where a record is expected
Undef == [undefined |-> TRUE]
\* The currencyId the seeded inventory rows carry: initializeCurrencies reads
\* .id off the Promise createCurrency returns, which is undefined
UndefinedId == -1

\* new Date().toISOString().split('T')[0]; the model stays within one day
Today == "today"

Zero == FromInt(0)

\* Request bodies: body.currencyId (0 names no currency), body.amount, body.rate
CurrencyIdInputs == {0, 1}
Amounts == {FromInt(4), FromInt(7)}
Rates == {FromInt(1), FromInt(3)}
\* ... and the bodies a client that validates nothing may send
AnyAmounts == {FromInt(4), FromInt(0), FromInt(-4)}
AnyRates == {FromInt(3), FromInt(0), FromInt(-3)}
\* Bodies of POST /api/currencies (code, currentRate) and the ids of PATCH
\* /api/currencies/:id/rate and of requests on a currency created on the way
CodeInputs == {"USD", "CHF"}
NewCurrencyIdInputs == {1, 5}
\* ... and a body.total that is not the product of body.amount and body.rate
Totals == {FromInt(5)}
\* ... and amounts of which a bought amount covers two
SmallAmounts == {FromInt(2)}
\* Bodies with decimal fractions: amounts 0.1, 0.2, 0.3 and rates 0.1, 3
DecimalAmounts == {Dec(1, 1), Dec(2, 1), Dec(3, 1)}
DecimalRates == {Dec(1, 1), FromInt(3)}

sampleCurrencies ==
  << [code |-> "USD", currentRate |-> Dec(8345, 2)],
     [code |-> "EUR", currentRate |-> Dec(9012, 2)],
     [code |-> "GBP", currentRate |-> Dec(10578, 2)],
     [code |-> "JPY", currentRate |-> Dec(55, 2)] >>

(***************************************************************************)
(* MemStorage's methods, as functions of the maps they read.               *)
(***************************************************************************)
getCurrency_Any(id) == IF id \in DOMAIN currencies THEN currencies[id] ELSE currencies[1]

getCurrency(id) == IF id \in DOMAIN currencies THEN currencies[id] ELSE Undef

\* Array.from(items.values()).find(item => item.currencyId === currencyId):
\* the first match in insertion order, which is the order of the ids
getInventoryByCurrencyIdIn(items, currencyId) ==
  LET hits == {i \in DOMAIN items : items[i].currencyId = currencyId}
  IN  IF hits = {} THEN Undef
      ELSE items[CHOOSE i \in hits : \A j \in hits : i <= j]

getInventoryByCurrencyId(currencyId) ==
  getInventoryByCurrencyIdIn(inventoryItems, currencyId)

getDailyStats(date) == IF date \in DOMAIN stats THEN stats[date] ELSE Undef

createInventoryItem_ZeroAverage(currencyId, amount, avgBuyPrice) ==
  inventoryItems @@
    (inventoryCurrentId :>
       [id |-> inventoryCurrentId, currencyId |-> currencyId, amount |-> amount,
        avgBuyPrice |-> Zero, totalValue |-> Undef])

\* The map after createInventoryItem: the route passes no totalValue
createInventoryItem(currencyId, amount, avgBuyPrice) ==
  inventoryItems @@
    (inventoryCurrentId :>
       [id |-> inventoryCurrentId, currencyId |-> currencyId, amount |-> amount,
        avgBuyPrice |-> avgBuyPrice, totalValue |-> Undef])

updateInventoryItem_StaleTotal(id, amount, avgBuyPrice) ==
  IF id \notin DOMAIN inventoryItems THEN inventoryItems
  ELSE [inventoryItems EXCEPT ![id] =
          [@ EXCEPT !.amount = amount, !.avgBuyPrice = avgBuyPrice]]

updateInventoryItem_Adds(id, amount, avgBuyPrice) ==
  IF id \notin DOMAIN inventoryItems THEN inventoryItems
  ELSE [inventoryItems EXCEPT ![id] =
          [@ EXCEPT !.amount = amount, !.avgBuyPrice = FAdd(@, avgBuyPrice),
                    !.totalValue = FMul(amount, avgBuyPrice)]]

\* The map after updateInventoryItem(id, amount, avgBuyPrice)
updateInventoryItem(id, amount, avgBuyPrice) ==
  IF id \notin DOMAIN inventoryItems THEN inventoryItems
  ELSE [inventoryItems EXCEPT ![id] =
          [@ EXCEPT !.amount = amount, !.avgBuyPrice = avgBuyPrice,
                    !.totalValue = FMul(amount, avgBuyPrice)]]

\* The stats map after createOrUpdateDailyStats({date, profit, transactionCount})
createOrUpdateDailyStats(date, profit, transactionCount) ==
  IF date \in DOMAIN stats
  THEN [stats EXCEPT ![date] =
          [@ EXCEPT !.profit = profit, !.transactionCount = transactionCount]]
  ELSE stats @@ (date :> [id |-> statsCurrentId, date |-> date, profit |-> profit,
                          transactionCount |-> transactionCount])

statsIdAfter(date) == IF date \in DOMAIN stats THEN statsCurrentId ELSE statsCurrentId + 1

(***************************************************************************)
(* The handlers' own computations.                                         *)
(***************************************************************************)
\* POST /api/transactions/buy: the new average buy price
newAvgBuyPrice(inventoryItem, amount, rate) ==
  LET currentTotalValue == FMul(inventoryItem.amount, inventoryItem.avgBuyPrice)
      newValue          == FMul(amount, rate)
      newTotalAmount    == FAdd(inventoryItem.amount, amount)
  IN  IF FPos(newTotalAmount)
      THEN FDiv(FAdd(currentTotalValue, newValue), newTotalAmount)
      ELSE rate

notEnoughInStock_Swapped(inventoryItem, amount) == FLt(amount, inventoryItem.amount)

notEnoughInStock_OrEqual(inventoryItem, amount) == ~FLt(amount, inventoryItem.amount)

notEnoughInStock_Off(inventoryItem, amount) == FALSE

\* POST /api/transactions/sell: the stock check
notEnoughInStock(inventoryItem, amount) == FLt(inventoryItem.amount, amount)

\* POST /api/transactions/sell: the amount left after a sale
newAmount(inventoryItem, amount) == FSub(inventoryItem.amount, amount)

sellProfit_Swapped(inventoryItem, amount, rate) ==
  FMul(amount, FSub(inventoryItem.avgBuyPrice, rate))

\* POST /api/transactions/sell: the profit of a sale
sellProfit(inventoryItem, amount, rate) ==
  FMul(amount, FSub(rate, inventoryItem.avgBuyPrice))

\* insertTransactionSchema.parse: the numeric columns are required strings, the
\* routes stringify Numbers; nothing looks at the sign of a value
parseOk(body) == body.total # Undef

idle ==
  [pc |-> "idle", op |-> "none", currencyId |-> 0, amount |-> Zero, rate |-> Zero,
   total |-> Zero, currency |-> Undef, inventoryItem |-> Undef, profit |-> Zero,
   dailyStat |-> Undef, cursor |-> 0, res |-> Undef, pre |-> Undef, code |-> ""]

InFlight(c) == req[c].pc \notin {"idle", "done"}

\* history: the records as they stood when the request arrived
Snapshot ==
  [inventoryItems |-> inventoryItems, transactionsList |-> transactionsList,
   stats |-> stats, currencies |-> currencies]

\* The handler has answered: its locals are dropped, the request and the
\* response stay
Respond(c, res) ==
  req' = [req EXCEPT ![c] =
            [@ EXCEPT !.pc = "done", !.res = res, !.currency = Undef,
                      !.inventoryItem = Undef, !.dailyStat = Undef,
                      !.profit = Zero, !.cursor = 0]]

Init ==
  /\ currencies = [i \in 1..Len(sampleCurrencies) |->
                     [id |-> i, code |-> sampleCurrencies[i].code,
                      currentRate |-> sampleCurrencies[i].currentRate]]
  /\ inventoryItems = [i \in 1..Len(sampleCurrencies) |->
                         [id |-> i, currencyId |-> UndefinedId, amount |-> Zero,
                          avgBuyPrice |-> sampleCurrencies[i].currentRate,
                          totalValue |-> Zero]]
  /\ transactionsList = << >>
  /\ stats = (Today :> [id |-> 1, date |-> Today, profit |-> Zero,
                        transactionCount |-> 0])
  /\ currencyCurrentId = Len(sampleCurrencies) + 1
  /\ inventoryCurrentId = Len(sampleCurrencies) + 1
  /\ transactionCurrentId = 1
  /\ statsCurrentId = 2
  /\ req = [c \in Clients |-> idle]
  /\ started = 0

(***************************************************************************)
(* POST /api/transactions/buy.  Each action is one stretch of the handler  *)
(* between two awaits: a store call runs when it is made, and the handler  *)
(* resumes in a later turn of the event loop.                              *)
(***************************************************************************)
\* The request arrives: parse, then the call of getCurrency
BuyArrivesOn(c, ids, amounts, rates, totals) ==
  /\ ~InFlight(c)
  /\ started < MaxRequests
  /\ \E currencyId \in ids, amount \in amounts, rate \in rates :
       \E total \in totals \cup {FMul(amount, rate)} :
         LET body == [idle EXCEPT !.op = "buy", !.currencyId = currencyId,
                                  !.amount = amount, !.rate = rate,
                                  !.total = total, !.pre = Snapshot]
         IN  IF ~parseOk(body)
             THEN req' = [req EXCEPT ![c] =
                            [body EXCEPT !.pc = "done",
                                         !.res = [status |-> 400,
                                                  message |-> "Invalid transaction data"]]]
             ELSE req' = [req EXCEPT ![c] =
                            [body EXCEPT !.pc = "gotCurrency",
                                         !.currency = getCurrency(currencyId)]]
  /\ started' = started + 1
  /\ UNCHANGED store

BuyArrives(c, amounts, rates, totals) ==
  BuyArrivesOn(c, CurrencyIdInputs, amounts, rates, totals)

StartBuy(c) == BuyArrives(c, Amounts, Rates, {})

\* if (!currency) 404; else the call of getInventoryByCurrencyId
BuyGotCurrency(c) ==
  /\ req[c].op = "buy" /\ req[c].pc = "gotCurrency"
  /\ IF req[c].currency = Undef
     THEN Respond(c, [status |-> 404, message |-> "Currency not found"])
     ELSE req' = [req EXCEPT ![c] =
                    [@ EXCEPT !.pc = "gotInventory",
                              !.inventoryItem = getInventoryByCurrencyId(req[c].currencyId)]]
  /\ UNCHANGED <<store, started>>

\* The average is computed from the inventory row the handler holds, and
\* written by updateInventoryItem
BuyUpdate(c) ==
  LET r == req[c]
      newTotalAmount == FAdd(r.inventoryItem.amount, r.amount)
  IN  /\ inventoryItems' =
           updateInventoryItem(r.inventoryItem.id, newTotalAmount,
                               newAvgBuyPrice(r.inventoryItem, r.amount, r.rate))
      /\ req' = [req EXCEPT ![c] = [@ EXCEPT !.pc = "updated"]]
      /\ UNCHANGED <<currencies, transactionsList, stats, currencyCurrentId,
                     inventoryCurrentId, transactionCurrentId, statsCurrentId,
                     started>>

\* if (!inventoryItem) the call of createInventoryItem; else the update
BuyGotInventory(c) ==
  /\ req[c].op = "buy" /\ req[c].pc = "gotInventory"
  /\ IF req[c].inventoryItem = Undef
     THEN /\ inventoryItems' = createInventoryItem(req[c].currencyId, Zero, req[c].rate)
          /\ inventoryCurrentId' = inventoryCurrentId + 1
          /\ req' = [req EXCEPT ![c] =
                       [@ EXCEPT !.pc = "created",
                                 !.inventoryItem = inventoryItems'[inventoryCurrentId]]]
          /\ UNCHANGED <<currencies, transactionsList, stats, currencyCurrentId,
                         transactionCurrentId, statsCurrentId, started>>
     ELSE BuyUpdate(c)

BuyCreated(c) ==
  /\ req[c].op = "buy" /\ req[c].pc = "created"
  /\ BuyUpdate(c)

(***************************************************************************)
(* MemStorage.createTransaction, called by both routes: the row is put in  *)
(* the map and today's stats are read; after the await they are written.   *)
(***************************************************************************)
transactionData(r) ==
  [id |-> transactionCurrentId, currencyId |-> r.currencyId,
   type |-> IF r.op = "buy" THEN "BUY" ELSE "SELL",
   amount |-> NumStr(r.amount), rate |-> NumStr(r.rate), total |-> NumStr(r.total),
   profit |-> IF r.op = "buy" THEN Zero ELSE NumStr(r.profit)]

CreateTransactionInsert_Replaces(c) ==
  /\ req[c].pc = "updated"
  /\ transactionsList' = (transactionCurrentId :> transactionData(req[c]))
  /\ transactionCurrentId' = transactionCurrentId + 1
  /\ req' = [req EXCEPT ![c] =
               [@ EXCEPT !.pc = "txInserted", !.dailyStat = getDailyStats(Today)]]
  /\ UNCHANGED <<currencies, inventoryItems, stats, currencyCurrentId,
                 inventoryCurrentId, statsCurrentId, started>>

CreateTransactionInsert(c) ==
  /\ req[c].pc = "updated"
  /\ transactionsList' =
       transactionsList @@ (transactionCurrentId :> transactionData(req[c]))
  /\ transactionCurrentId' = transactionCurrentId + 1
  /\ req' = [req EXCEPT ![c] =
               [@ EXCEPT !.pc = "txInserted", !.dailyStat = getDailyStats(Today)]]
  /\ UNCHANGED <<currencies, inventoryItems, stats, currencyCurrentId,
                 inventoryCurrentId, statsCurrentId, started>>

\* The fold createTransaction does itself; the buy route then answers 201
CreateTransactionFold(c) ==
  LET r == req[c]
      profit == IF r.op = "buy" THEN Zero ELSE NumStr(r.profit)
  IN  /\ r.pc = "txInserted"
      /\ stats' = IF r.dailyStat # Undef
                  THEN createOrUpdateDailyStats(Today, FAdd(r.dailyStat.profit, profit),
                                                r.dailyStat.transactionCount + 1)
                  ELSE createOrUpdateDailyStats(Today, profit, 1)
      /\ statsCurrentId' = statsIdAfter(Today)
      /\ IF r.op = "buy"
         THEN Respond(c, [status |-> 201])
         ELSE req' = [req EXCEPT ![c] = [@ EXCEPT !.pc = "txCreated", !.dailyStat = Undef]]
      /\ UNCHANGED <<currencies, inventoryItems, transactionsList, currencyCurrentId,
                     inventoryCurrentId, transactionCurrentId, started>>

(***************************************************************************)
(* POST /api/transactions/sell                                             *)
(***************************************************************************)
\* The request arrives: the call of getInventoryByCurrencyId
SellArrivesOn(c, ids, amounts, rates, totals) ==
  /\ ~InFlight(c)
  /\ started < MaxRequests
  /\ \E currencyId \in ids, amount \in amounts, rate \in rates :
       \E total \in totals \cup {FMul(amount, rate)} :
         req' = [req EXCEPT ![c] =
                   [idle EXCEPT !.op = "sell", !.pc = "gotInventory",
                                !.currencyId = currencyId, !.amount = amount,
                                !.rate = rate, !.total = total, !.pre = Snapshot,
                                !.inventoryItem = getInventoryByCurrencyId(currencyId)]]
  /\ started' = started + 1
  /\ UNCHANGED store

SellArrives(c, amounts, rates, totals) ==
  SellArrivesOn(c, CurrencyIdInputs, amounts, rates, totals)

StartSell(c) == SellArrives(c, Amounts, Rates, {})

\* 404 without a row, 400 without the stock; else the profit, the parse and
\* the call of updateInventoryItem with the average the handler read
SellGotInventory(c) ==
  LET r == req[c]
  IN  /\ r.op = "sell" /\ r.pc = "gotInventory"
      /\ IF r.inventoryItem = Undef
         THEN /\ Respond(c, [status |-> 404,
                             message |-> "Inventory not found for this currency"])
              /\ UNCHANGED <<store, started>>
         ELSE IF notEnoughInStock(r.inventoryItem, r.amount)
         THEN /\ Respond(c, [status |-> 400, message |-> "Not enough currency in stock",
                             available |-> r.inventoryItem.amount])
              /\ UNCHANGED <<store, started>>
         ELSE IF ~parseOk(r)
         THEN /\ Respond(c, [status |-> 400, message |-> "Invalid transaction data"])
              /\ UNCHANGED <<store, started>>
         ELSE /\ inventoryItems' =
                   updateInventoryItem(r.inventoryItem.id,
                                       newAmount(r.inventoryItem, r.amount),
                                       r.inventoryItem.avgBuyPrice)
              /\ req' = [req EXCEPT ![c] =
                           [@ EXCEPT !.pc = "updated",
                                     !.profit = sellProfit(r.inventoryItem, r.amount, r.rate)]]
              /\ UNCHANGED <<currencies, transactionsList, stats, currencyCurrentId,
                             inventoryCurrentId, transactionCurrentId, statsCurrentId,
                             started>>

\* createTransaction has returned: the route's own call of getDailyStats
SellGotTransaction(c) ==
  /\ req[c].op = "sell" /\ req[c].pc = "txCreated"
  /\ req' = [req EXCEPT ![c] =
               [@ EXCEPT !.pc = "gotStats", !.dailyStat = getDailyStats(Today)]]
  /\ UNCHANGED <<store, started>>

\* The route's own fold into today's stats, and the answer
SellFoldStats(c) ==
  LET r == req[c]
  IN  /\ r.op = "sell" /\ r.pc = "gotStats"
      /\ stats' = IF r.dailyStat # Undef
                  THEN createOrUpdateDailyStats(Today,
                                                NumStr(FAdd(r.dailyStat.profit, r.profit)),
                                                r.dailyStat.transactionCount + 1)
                  ELSE createOrUpdateDailyStats(Today, NumStr(r.profit), 1)
      /\ statsCurrentId' = statsIdAfter(Today)
      /\ Respond(c, [status |-> 201])
      /\ UNCHANGED <<currencies, inventoryItems, transactionsList, currencyCurrentId,
                     inventoryCurrentId, transactionCurrentId, started>>

(***************************************************************************)
(* POST /api/reset: MemStorage.resetInventory walks the inventory map,     *)
(* awaiting getCurrency and updateInventoryItem for each row.              *)
(***************************************************************************)
\* The loop moves on from row `from`: the call of getCurrency for the next row,
\* or, past the last row, the statements after the loop and the answer
ResetAdvance(c, r, from) ==
  IF from + 1 \in DOMAIN inventoryItems
  THEN /\ req' = [req EXCEPT ![c] =
                    [r EXCEPT !.pc = "resetGotCurrency", !.cursor = from + 1,
                              !.currency = getCurrency(inventoryItems[from + 1].currencyId)]]
       /\ UNCHANGED <<transactionsList, transactionCurrentId, stats, statsCurrentId>>
  ELSE /\ transactionsList' = << >>
       /\ transactionCurrentId' = 1
       /\ stats' = createOrUpdateDailyStats(Today, Zero, 0)
       /\ statsCurrentId' = statsIdAfter(Today)
       /\ req' = [req EXCEPT ![c] =
                    [r EXCEPT !.pc = "done", !.res = [status |-> 200], !.cursor = 0,
                              !.currency = Undef]]

\* The request arrives: resetInventory runs up to its first await
StartReset(c) ==
  /\ ~InFlight(c)
  /\ started < MaxRequests
  /\ started' = started + 1
  /\ ResetAdvance(c, [idle EXCEPT !.op = "reset", !.pre = Snapshot], 0)
  /\ UNCHANGED <<currencies, inventoryItems, currencyCurrentId, inventoryCurrentId>>

\* if (currency) the call of updateInventoryItem; else the next row
ResetGotCurrency(c) ==
  LET r == req[c]
  IN  /\ r.pc = "resetGotCurrency"
      /\ IF r.currency # Undef
         THEN /\ inventoryItems' = updateInventoryItem(r.cursor, Zero, r.currency.currentRate)
              /\ req' = [req EXCEPT ![c] = [@ EXCEPT !.pc = "resetUpdated"]]
              /\ UNCHANGED <<transactionsList, transactionCurrentId, stats, statsCurrentId>>
         ELSE /\ ResetAdvance(c, r, r.cursor)
              /\ UNCHANGED inventoryItems
      /\ UNCHANGED <<currencies, currencyCurrentId, inventoryCurrentId, started>>

ResetUpdated(c) ==
  /\ req[c].pc = "resetUpdated"
  /\ ResetAdvance(c, req[c], req[c].cursor)
  /\ UNCHANGED <<currencies, inventoryItems, currencyCurrentId, inventoryCurrentId,
                 started>>

(***************************************************************************)
(* POST /api/currencies                                                    *)
(***************************************************************************)
getCurrencyByCode_Blind(code) == Undef

getCurrencyByCode(code) ==
  LET hits == {i \in DOMAIN currencies : currencies[i].code = code}
  IN  IF hits = {} THEN Undef
      ELSE currencies[CHOOSE i \in hits : \A j \in hits : i <= j]

\* The currencies map after createCurrency
createCurrency(code, currentRate) ==
  currencies @@
    (currencyCurrentId :>
       [id |-> currencyCurrentId, code |-> code, currentRate |-> currentRate])

\* The request arrives: parse, then the call of getCurrencyByCode
StartCreateCurrency(c) ==
  /\ ~InFlight(c)
  /\ started < MaxRequests
  /\ \E code \in CodeInputs, currentRate \in Rates :
       req' = [req EXCEPT ![c] =
                 [idle EXCEPT !.op = "createCurrency", !.pc = "gotByCode",
                              !.code = code, !.rate = NumStr(currentRate),
                              !.pre = Snapshot,
                              !.currency = getCurrencyByCode(code)]]
  /\ started' = started + 1
  /\ UNCHANGED store

\* if (existingCurrency) 400; else the call of createCurrency
CreateCurrencyGotByCode(c) ==
  LET r == req[c]
  IN  /\ r.op = "createCurrency" /\ r.pc = "gotByCode"
      /\ IF r.currency # Undef
         THEN /\ Respond(c, [status |-> 400, message |-> "Currency code already exists"])
              /\ UNCHANGED <<store, started>>
         ELSE /\ currencies' = createCurrency(r.code, r.rate)
              /\ currencyCurrentId' = currencyCurrentId + 1
              /\ req' = [req EXCEPT ![c] =
                           [r EXCEPT !.pc = "currencyCreated",
                                     !.currency = currencies'[currencyCurrentId]]]
              /\ UNCHANGED <<inventoryItems, transactionsList, stats, inventoryCurrentId,
                             transactionCurrentId, statsCurrentId, started>>

\* The call of createInventoryItem for the currency createCurrency returned
CreateCurrencyCreated(c) ==
  LET r == req[c]
  IN  /\ r.op = "createCurrency" /\ r.pc = "currencyCreated"
      /\ inventoryItems' = createInventoryItem(r.currency.id, Zero, r.currency.currentRate)
      /\ inventoryCurrentId' = inventoryCurrentId + 1
      /\ req' = [req EXCEPT ![c] = [r EXCEPT !.pc = "inventoryCreated"]]
      /\ UNCHANGED <<currencies, transactionsList, stats, currencyCurrentId,
                     transactionCurrentId, statsCurrentId, started>>

\* res.status(201).json(currency)
CreateCurrencyInventoryCreated(c) ==
  /\ req[c].op = "createCurrency" /\ req[c].pc = "inventoryCreated"
  /\ Respond(c, [status |-> 201, id |-> req[c].currency.id])
  /\ UNCHANGED <<store, started>>

(***************************************************************************)
(* PATCH /api/currencies/:id/rate                                          *)
(***************************************************************************)
updateCurrencyRate_Every(id, rate) ==
  IF id \notin DOMAIN currencies THEN currencies
  ELSE [i \in DOMAIN currencies |-> [currencies[i] EXCEPT !.currentRate = rate]]

\* The currencies map after updateCurrencyRate(id, rate)
updateCurrencyRate(id, rate) ==
  IF id \notin DOMAIN currencies THEN currencies
  ELSE [currencies EXCEPT ![id] = [@ EXCEPT !.currentRate = rate]]

\* The request arrives with a number for rate: the call of updateCurrencyRate
StartUpdateRate(c) ==
  /\ ~InFlight(c)
  /\ started < MaxRequests
  /\ \E id \in NewCurrencyIdInputs, rate \in Rates :
       /\ currencies' = updateCurrencyRate(id, rate)
       /\ req' = [req EXCEPT ![c] =
                    [idle EXCEPT !.op = "updateRate", !.pc = "rateUpdated",
                                 !.currencyId = id, !.rate = rate, !.pre = Snapshot,
                                 !.currency = IF id \in DOMAIN currencies
                                              THEN currencies'[id] ELSE Undef]]
  /\ started' = started + 1
  /\ UNCHANGED <<inventoryItems, transactionsList, stats, currencyCurrentId,
                 inventoryCurrentId, transactionCurrentId, statsCurrentId>>

\* if (!currency) 404; else res.json(currency)
UpdateRateUpdated(c) ==
  /\ req[c].op = "updateRate" /\ req[c].pc = "rateUpdated"
  /\ IF req[c].currency = Undef
     THEN Respond(c, [status |-> 404, message |-> "Currency not found"])
     ELSE Respond(c, [status |-> 200])
  /\ UNCHANGED <<store, started>>

\* Buys and sells that may name a currency created on the way
StartBuyNew(c) == BuyArrivesOn(c, NewCurrencyIdInputs, Amounts, Rates, {})

StartSellNew(c) == SellArrivesOn(c, NewCurrencyIdInputs, Amounts, Rates, {})

StepCurrency(c) ==
  \/ CreateCurrencyGotByCode(c)
  \/ CreateCurrencyCreated(c)
  \/ CreateCurrencyInventoryCreated(c)
  \/ UpdateRateUpdated(c)

(***************************************************************************)
(* A store call that rejects.  The handler is waiting on the call it made  *)
(* last; when that call throws instead of returning, the route's catch     *)
(* answers 500 and does nothing else.                                      *)
(***************************************************************************)
Fail(c) ==
  /\ InFlight(c)
  /\ Respond(c, [status |-> 500,
                 message |-> IF req[c].op = "reset" THEN "Failed to reset inventory"
                             ELSE "Failed to create transaction"])
  /\ UNCHANGED <<store, started>>

\* Requests of a client that sends any number, or leaves total out
StartBuyAny(c) == BuyArrives(c, AnyAmounts, AnyRates, {Undef})

StartSellAny(c) == SellArrives(c, AnyAmounts, AnyRates, {Undef})

\* Requests that carry a total of the client's own
StartBuyTotal(c) == BuyArrives(c, Amounts, Rates, Totals)

StartSellTotal(c) == SellArrives(c, Amounts, Rates, Totals)

\* Sells small enough for two of them to be covered by one buy
StartSellSmall(c) == SellArrives(c, SmallAmounts, Rates, {})

\* Requests whose amounts and rates are decimal fractions
StartBuyDecimal(c) == BuyArrivesOn(c, {1}, DecimalAmounts, DecimalRates, {})

StartSellDecimal(c) == SellArrivesOn(c, {1}, DecimalAmounts, DecimalRates, {})

(***************************************************************************)
(* Specifications                                                          *)
(***************************************************************************)
Step(c) ==
  \/ BuyGotCurrency(c)
  \/ BuyGotInventory(c)
  \/ BuyCreated(c)
  \/ CreateTransactionInsert(c)
  \/ CreateTransactionFold(c)
  \/ SellGotInventory(c)
  \/ SellGotTransaction(c)
  \/ SellFoldStats(c)
  \/ ResetGotCurrency(c)
  \/ ResetUpdated(c)

\* Requests processed one at a time
Next == StartBuy(1) \/ StartSell(1) \/ StartReset(1) \/ Step(1)

Spec == Init /\ [][Next]_vars

\* Requests of several clients, interleaved at the awaits
NextConc == \E c \in Clients : StartBuy(c) \/ StartSell(c) \/ StartReset(c) \/ Step(c)

SpecConc == Init /\ [][NextConc]_vars

\* Requests processed one at a time, over a store whose calls may reject
NextFault == Next \/ Fail(1)

SpecFault == Init /\ [][NextFault]_vars

\* Requests processed one at a time, with no restriction on what they carry
NextInvalid == StartBuyAny(1) \/ StartSellAny(1) \/ StartReset(1) \/ Step(1)

SpecInvalid == Init /\ [][NextInvalid]_vars

\* All five kinds of request, processed one at a time
NextCurrency ==
  \/ StartCreateCurrency(1) \/ StartUpdateRate(1)
  \/ StartBuyNew(1) \/ StartSellNew(1) \/ StartReset(1)
  \/ Step(1) \/ StepCurrency(1)

SpecCurrency == Init /\ [][NextCurrency]_vars

\* Requests with any total, processed one at a time
NextTotal == StartBuyTotal(1) \/ StartSellTotal(1) \/ StartReset(1) \/ Step(1)

SpecTotal == Init /\ [][NextTotal]_vars

\* Requests of several clients, with sells that the stock covers
NextStat == \E c \in Clients : StartBuy(c) \/ StartSellSmall(c) \/ StartReset(c) \/ Step(c)

SpecStat == Init /\ [][NextStat]_vars

\* Create-currency requests and buys of the currency they create, of several
\* clients, interleaved at the awaits
StartBuyCreated(c) == BuyArrivesOn(c, {Len(sampleCurrencies) + 1}, Amounts, Rates, {})

NextRace ==
  \E c \in Clients :
    \/ StartCreateCurrency(c) \/ CreateCurrencyGotByCode(c)
    \/ CreateCurrencyCreated(c) \/ CreateCurrencyInventoryCreated(c)
    \/ StartBuyCreated(c) \/ BuyGotCurrency(c) \/ BuyGotInventory(c) \/ BuyCreated(c)
    \/ CreateTransactionInsert(c) \/ CreateTransactionFold(c)

SpecRace == Init /\ [][NextRace]_vars

\* Requests with decimal fractions, processed one at a time
NextDecimal == StartBuyDecimal(1) \/ StartSellDecimal(1) \/ StartReset(1) \/ Step(1)

SpecDecimal == Init /\ [][NextDecimal]_vars

(***************************************************************************)
(* SqliteStorage (src/server/storage.ts), the store over better-sqlite3.   *)
(* Its statements run synchronously, so each method is one step.  The      *)
(* tables are the same variables; a row has the columns of the table.      *)
(***************************************************************************)
\* Ids of UPDATE ... WHERE id = ? statements
SqliteIdInputs == {1, 2}

\* The database once addTestCurrencyIfEmpty has run on the empty tables
InitSqlite ==
  /\ currencies = (1 :> [id |-> 1, code |-> "USD", currentRate |-> Dec(8250, 2)])
  /\ inventoryItems = (1 :> [id |-> 1, currencyId |-> 1, amount |-> Zero,
                             avgBuyPrice |-> Dec(8250, 2)])
  /\ transactionsList = << >>
  /\ stats = << >>
  /\ currencyCurrentId = 2
  /\ inventoryCurrentId = 2
  /\ transactionCurrentId = 1
  /\ statsCurrentId = 1
  /\ req = [c \in Clients |-> idle]
  /\ started = 0

\* A call of a store method by client c that has returned
SqliteCalled(c, op) ==
  /\ ~InFlight(c)
  /\ started < MaxRequests
  /\ started' = started + 1
  /\ req' = [req EXCEPT ![c] = [idle EXCEPT !.op = op, !.pc = "done", !.pre = Snapshot,
                                             !.res = [status |-> 200]]]

\* createCurrency, then createInventoryItem as POST /api/currencies calls them
SqliteCreateCurrency(c) ==
  /\ \E code \in CodeInputs, currentRate \in Rates :
       /\ getCurrencyByCode(code) = Undef
       /\ currencies' = createCurrency(code, currentRate)
       /\ inventoryItems' = inventoryItems @@
            (inventoryCurrentId :> [id |-> inventoryCurrentId, currencyId |-> currencyCurrentId,
                                    amount |-> Zero, avgBuyPrice |-> currentRate])
  /\ currencyCurrentId' = currencyCurrentId + 1
  /\ inventoryCurrentId' = inventoryCurrentId + 1
  /\ SqliteCalled(c, "createCurrency")
  /\ UNCHANGED <<transactionsList, stats, transactionCurrentId, statsCurrentId>>

\* UPDATE currencies SET current_rate = ? WHERE id = ?
SqliteUpdateCurrencyRate(c) ==
  /\ \E id \in SqliteIdInputs, rate \in Rates :
       currencies' = [i \in DOMAIN currencies |->
                        IF i = id THEN [currencies[i] EXCEPT !.currentRate = rate]
                        ELSE currencies[i]]
  /\ SqliteCalled(c, "updateRate")
  /\ UNCHANGED <<inventoryItems, transactionsList, stats, currencyCurrentId,
                 inventoryCurrentId, transactionCurrentId, statsCurrentId>>

\* UPDATE inventory SET amount = ?, avg_buy_price = ? WHERE id = ?
SqliteUpdateInventoryItem(c) ==
  /\ \E id \in SqliteIdInputs, amount \in Amounts, avgBuyPrice \in Rates :
       inventoryItems' = [i \in DOMAIN inventoryItems |->
                            IF i = id
                            THEN [inventoryItems[i] EXCEPT !.amount = amount,
                                                           !.avgBuyPrice = avgBuyPrice]
                            ELSE inventoryItems[i]]
  /\ SqliteCalled(c, "updateInventoryItem")
  /\ UNCHANGED <<currencies, transactionsList, stats, currencyCurrentId,
                 inventoryCurrentId, transactionCurrentId, statsCurrentId>>

\* INSERT INTO transactions: the row only, daily_stats is not touched
SqliteCreateTransaction(c) ==
  /\ \E amount \in Amounts, rate \in Rates :
       transactionsList' = transactionsList @@
         (transactionCurrentId :> [id |-> transactionCurrentId, currencyId |-> 1,
                                   type |-> "BUY", amount |-> amount, rate |-> rate,
                                   total |-> FMul(amount, rate), profit |-> Zero])
  /\ transactionCurrentId' = transactionCurrentId + 1
  /\ SqliteCalled(c, "createTransaction")
  /\ UNCHANGED <<currencies, inventoryItems, stats, currencyCurrentId,
                 inventoryCurrentId, statsCurrentId>>

\* Dates of daily_stats rows: a day gone by, and today
DateInputs == {"yesterday", Today}

\* INSERT INTO daily_stats ... ON CONFLICT(date) DO UPDATE, as the sell route
\* calls it on the day of the sale
SqliteCreateOrUpdateDailyStats(c) ==
  /\ \E date \in DateInputs, profit \in Amounts :
       /\ stats' = IF date \in DOMAIN stats
                   THEN [stats EXCEPT ![date] =
                           [@ EXCEPT !.profit = profit, !.transactionCount = 1]]
                   ELSE stats @@ (date :> [id |-> statsCurrentId, date |-> date,
                                           profit |-> profit, transactionCount |-> 1])
       /\ statsCurrentId' = IF date \in DOMAIN stats THEN statsCurrentId
                            ELSE statsCurrentId + 1
  /\ SqliteCalled(c, "createOrUpdateDailyStats")
  /\ UNCHANGED <<currencies, inventoryItems, transactionsList, currencyCurrentId,
                 inventoryCurrentId, transactionCurrentId>>

\* One database transaction: DELETE FROM transactions; UPDATE inventory SET
\* amount = 0; UPDATE daily_stats SET profit = 0, transaction_count = 0.  The
\* AUTOINCREMENT counter of transactions is kept.
SqliteResetInventory(c) ==
  /\ transactionsList' = << >>
  /\ inventoryItems' = [i \in DOMAIN inventoryItems |->
                          [inventoryItems[i] EXCEPT !.amount = Zero]]
  /\ stats' = [d \in DOMAIN stats |->
                 [stats[d] EXCEPT !.profit = Zero, !.transactionCount = 0]]
  /\ SqliteCalled(c, "reset")
  /\ UNCHANGED <<currencies, currencyCurrentId, inventoryCurrentId,
                 transactionCurrentId, statsCurrentId>>

\* Calls of the SqliteStorage methods, one at a time
NextSqlite ==
  \/ SqliteCreateCurrency(1) \/ SqliteUpdateCurrencyRate(1)
  \/ SqliteUpdateInventoryItem(1) \/ SqliteCreateTransaction(1)
  \/ SqliteCreateOrUpdateDailyStats(1) \/ SqliteResetInventory(1)

SpecSqlite == InitSqlite /\ [][NextSqlite]_vars

(***************************************************************************)
(* Properties                                                              *)
(***************************************************************************)
Quiescent == \A c \in Clients : ~InFlight(c)

Done(c, op, status) ==
  /\ req[c].pc = "done"
  /\ req[c].op = op
  /\ req[c].res.status = status

\* The position of the request's currency as it stood when the request arrived
Before(c) == getInventoryByCurrencyIdIn(req[c].pre.inventoryItems, req[c].currencyId)

\* The logged transactions of a currency, and of a type
LogOf(currencyId) ==
  {t \in DOMAIN transactionsList : transactionsList[t].currencyId = currencyId}

Sells == {t \in DOMAIN transactionsList : transactionsList[t].type = "SELL"}

RECURSIVE SumAmount(_)
SumAmount(ts) ==
  IF ts = {} THEN Zero
  ELSE LET t == CHOOSE u \in ts : \A v \in ts : u >= v
       IN  FAdd(SumAmount(ts \ {t}), transactionsList[t].amount)

RECURSIVE SumValue(_)
SumValue(ts) ==
  IF ts = {} THEN Zero
  ELSE LET t == CHOOSE u \in ts : \A v \in ts : u >= v
       IN  FAdd(SumValue(ts \ {t}),
                FMul(transactionsList[t].amount, transactionsList[t].rate))

RECURSIVE SumProfit(_)
SumProfit(ts) ==
  IF ts = {} THEN Zero
  ELSE LET t == CHOOSE u \in ts : \A v \in ts : u >= v
       IN  FAdd(SumProfit(ts \ {t}), transactionsList[t].profit)

\* C1: between requests, a currency whose log holds buys only (so a position
\* that started from amount 0) has a position whose amount is the sum of the
\* bought amounts and whose avgBuyPrice is sum(amount_i * rate_i) / sum(amount_i).
C1_BuysGiveWeightedAverage ==
  Quiescent =>
    \A k \in CurrencyIdInputs :
      (LogOf(k) # {} /\ \A t \in LogOf(k) : transactionsList[t].type = "BUY") =>
        LET position == getInventoryByCurrencyId(k)
        IN  /\ position # Undef
            /\ FEq(position.amount, SumAmount(LogOf(k)))
            /\ FEq(position.avgBuyPrice,
                   FDiv(SumValue(LogOf(k)), SumAmount(LogOf(k))))

\* The step in which the sell handler of client c calls updateInventoryItem
SellWrites(c) ==
  /\ req[c].op = "sell"
  /\ req[c].pc = "gotInventory"
  /\ req'[c].pc = "updated"

\* C2: the write of a sell sets the amount of the position to the amount it
\* held when the sell arrived minus the sold amount, and changes the
\* avgBuyPrice of no position.
C2_SellLowersAmountKeepsAverage ==
  [][\A c \in Clients :
       SellWrites(c) =>
         /\ FEq(inventoryItems'[Before(c).id].amount,
                FSub(Before(c).amount, req[c].amount))
         /\ \A i \in DOMAIN inventoryItems :
              inventoryItems'[i].avgBuyPrice = inventoryItems[i].avgBuyPrice]_vars

\* The step in which createTransaction stores the row of the sell of client c
SellStores(c) ==
  /\ req[c].op = "sell"
  /\ req[c].pc = "updated"
  /\ req'[c].pc = "txInserted"

\* C3: the row a sell stores is a SELL whose profit is amount * (rate -
\* avgBuyPrice) for the avgBuyPrice the position had when the sell arrived:
\* positive when rate > avgBuyPrice, negative when rate < avgBuyPrice, zero when
\* they are equal; and a sell answers 201 only after it has stored its row.
C3_SellProfit ==
  [][\A c \in Clients :
       /\ SellStores(c) =>
            LET t == transactionsList'[transactionCurrentId]
                P == Before(c).avgBuyPrice
            IN  /\ t.type = "SELL"
                /\ t.currencyId = req[c].currencyId
                /\ FEq(t.profit, FMul(req[c].amount, FSub(req[c].rate, P)))
                /\ FLt(P, req[c].rate) => FPos(t.profit)
                /\ FLt(req[c].rate, P) => FLt(t.profit, Zero)
                /\ FEq(req[c].rate, P) => IsZero(t.profit)
       /\ (req[c].op = "sell" /\ InFlight(c) /\ req'[c].pc = "done"
             /\ req'[c].res.status = 201) =>
            req[c].pc = "gotStats"]_vars

\* a sell below the average has stored a loss while another request is in flight
C3_Witness ==
  \E c \in Clients :
    /\ req[c].op = "sell"
    /\ req[c].pc = "txInserted"
    /\ FLt(req[c].rate, Before(c).avgBuyPrice)
    /\ FLt(transactionsList[transactionCurrentId - 1].profit, Zero)
    /\ \E d \in Clients \ {c} : InFlight(d)

\* The sell of client c asks for more than the position held when it arrived
AsksTooMuch(c) ==
  /\ req[c].op = "sell"
  /\ req[c].pc = "gotInventory"
  /\ Before(c) # Undef
  /\ FLt(Before(c).amount, req[c].amount)

\* C4: a sell for more than the position held when the sell arrived is answered
\* 400 "Not enough currency in stock" with available equal to that amount, and
\* no step of its handler changes a position, the log or the stats.
C4_OversellRejected ==
  [][\A c \in Clients :
       /\ (~InFlight(c) /\ req'[c].op = "sell" /\ req'[c].pc = "gotInventory") =>
            Snapshot' = Snapshot
       /\ (AsksTooMuch(c) /\ req'[c] # req[c]) =>
            /\ req'[c].pc = "done"
            /\ req'[c].res.status = 400
            /\ req'[c].res.message = "Not enough currency in stock"
            /\ req'[c].res.available = Before(c).amount
            /\ Snapshot' = Snapshot]_vars

\* a sell of more than a non-empty position holds has been refused
C4_Witness ==
  \E c \in Clients :
    /\ Done(c, "sell", 400)
    /\ Before(c) # Undef
    /\ FPos(Before(c).amount)
    /\ FLt(Before(c).amount, req[c].amount)

\* Two sells of one currency that arrived on the same positions, both answered 201
BothSold ==
  /\ Done(1, "sell", 201)
  /\ Done(2, "sell", 201)
  /\ req[1].currencyId = req[2].currencyId
  /\ req[1].pre.inventoryItems = req[2].pre.inventoryItems

\* C5: when two sells of one currency that arrived on the same position have
\* both answered 201, the two sold amounts together do not exceed the amount held
\* at their arrival, and the position holds that amount minus both sold amounts.
C5_ConcurrentSellsSerialize ==
  BothSold =>
    LET sold == FAdd(req[1].amount, req[2].amount)
    IN  /\ ~FLt(Before(1).amount, sold)
        /\ FEq(inventoryItems[Before(1).id].amount, FSub(Before(1).amount, sold))

\* C6: between requests, today's Daily Stat profit is the sum of the profit of
\* the stored SELL transactions.
C6_StatProfitIsSumOfSells ==
  Quiescent => FEq(stats[Today].profit, SumProfit(Sells))

\* C7: between requests, today's Daily Stat transactionCount is the number of
\* stored SELL transactions; a reset zeroes the count and empties the log
\* together, and a buy adds no SELL.
C7_CountIsNumberOfSells ==
  Quiescent => stats[Today].transactionCount = Cardinality(Sells)

\* C8: a buy or sell whose amount or rate is not positive is refused (it is
\* answered with an error, never 201), and positions, log and stats are as
\* they were at its arrival.
C8_NonPositiveRejected ==
  (/\ req[1].pc = "done"
   /\ req[1].op \in {"buy", "sell"}
   /\ (~FPos(req[1].amount) \/ ~FPos(req[1].rate))) =>
    /\ req[1].res.status # 201
    /\ Snapshot = req[1].pre

\* C9: a buy or sell that has answered 500 because a store call rejected has
\* left positions, log and stats as they were at its arrival.
C9_FailureLeavesNothing ==
  (/\ req[1].pc = "done"
   /\ req[1].op \in {"buy", "sell"}
   /\ req[1].res.status = 500) =>
    Snapshot = req[1].pre

\* C10: in every state, under every interleaving of buys, sells and resets
\* with positive amounts and rates, no position has a negative amount.
C10_AmountNeverNegative ==
  \A i \in DOMAIN inventoryItems : ~FLt(inventoryItems[i].amount, Zero)

\* two overlapping sells have together sold more than the position held
C10_Witness ==
  /\ BothSold
  /\ FLt(Before(1).amount, FAdd(req[1].amount, req[2].amount))
  /\ ~FLt(inventoryItems[Before(1).id].amount, Zero)

\* The logged transactions of a currency that have a given type
LogOfType(currencyId, type) ==
  {t \in LogOf(currencyId) : transactionsList[t].type = type}

\* C11: between requests processed one at a time, every position's amount is
\* the sum of the amounts of the stored BUY transactions of its currency minus
\* the sum of the amounts of its stored SELL transactions.
C11_PositionIsAggregateOfLog ==
  Quiescent =>
    \A i \in DOMAIN inventoryItems :
      FEq(inventoryItems[i].amount,
          FSub(SumAmount(LogOfType(inventoryItems[i].currencyId, "BUY")),
               SumAmount(LogOfType(inventoryItems[i].currencyId, "SELL"))))

\* The step in which the buy handler of client c calls updateInventoryItem
BuyWrites(c) ==
  /\ req[c].op = "buy"
  /\ req[c].pc \in {"gotInventory", "created"}
  /\ req'[c].pc = "updated"

\* The step in which createTransaction stores the row of the buy of client c
BuyStores(c) ==
  /\ req[c].op = "buy"
  /\ req[c].pc = "updated"
  /\ req'[c].pc = "txInserted"

\* C12: the write of a buy raises the amount of the position by exactly the
\* bought amount; a buy stores exactly one row, of type BUY with profit 0; and
\* every stored row has type BUY or SELL, every BUY row profit 0.
C12_BuyAddsAmountAndOneBuyRow ==
  [][\A c \in Clients :
       /\ BuyWrites(c) =>
            FEq(inventoryItems'[req[c].inventoryItem.id].amount,
                FAdd(inventoryItems[req[c].inventoryItem.id].amount, req[c].amount))
       /\ BuyStores(c) =>
            /\ DOMAIN transactionsList' = DOMAIN transactionsList \cup {transactionCurrentId}
            /\ transactionCurrentId \notin DOMAIN transactionsList
            /\ transactionsList'[transactionCurrentId].type = "BUY"
            /\ IsZero(transactionsList'[transactionCurrentId].profit)
       /\ \A t \in DOMAIN transactionsList' :
            /\ transactionsList'[t].type \in {"BUY", "SELL"}
            /\ transactionsList'[t].type = "BUY" => IsZero(transactionsList'[t].profit)]_vars

\* MemStorage.getCurrenciesWithInventory: every currency with the position
\* getInventoryByCurrencyId finds for it
getCurrenciesWithInventory ==
  [i \in DOMAIN currencies |->
     [currency |-> currencies[i], inventory |-> getInventoryByCurrencyId(currencies[i].id)]]

\* C13: when a reset has completed and nothing is in flight, every currency
\* that getCurrenciesWithInventory returns has a position whose amount is 0,
\* no transaction is stored, and today's Daily Stat has profit 0 and
\* transactionCount 0.
C13_ResetZeroesEverything ==
  (Quiescent /\ Done(1, "reset", 200)) =>
    /\ \A i \in DOMAIN getCurrenciesWithInventory :
         /\ getCurrenciesWithInventory[i].inventory # Undef
         /\ IsZero(getCurrenciesWithInventory[i].inventory.amount)
    /\ DOMAIN transactionsList = {}
    /\ getDailyStats(Today) # Undef
    /\ IsZero(getDailyStats(Today).profit)
    /\ getDailyStats(Today).transactionCount = 0

\* C14: when a reset has completed, the avgBuyPrice of every position is the
\* current rate of its currency, in each store; here the SqliteStorage one.
C14_ResetSetsAverageToRate ==
  Done(1, "reset", 200) =>
    \A i \in DOMAIN inventoryItems :
      getCurrency(inventoryItems[i].currencyId) # Undef =>
        FEq(inventoryItems[i].avgBuyPrice,
            getCurrency(inventoryItems[i].currencyId).currentRate)

\* What resetInventory establishes: every position of a currency has amount 0,
\* that currency's rate as its average and 0 as its totalValue, no transaction is stored, the
\* transaction ids start again at 1, and today's Daily Stat is 0 and 0
ResetForm ==
  /\ \A i \in DOMAIN inventoryItems :
       getCurrency(inventoryItems[i].currencyId) # Undef =>
         /\ IsZero(inventoryItems[i].amount)
         /\ FEq(inventoryItems[i].avgBuyPrice,
                getCurrency(inventoryItems[i].currencyId).currentRate)
         /\ inventoryItems[i].totalValue # Undef
         /\ IsZero(inventoryItems[i].totalValue)
  /\ \A i \in DOMAIN inventoryItems : IsZero(inventoryItems[i].amount)
  /\ DOMAIN transactionsList = {}
  /\ transactionCurrentId = 1
  /\ getDailyStats(Today) # Undef
  /\ IsZero(getDailyStats(Today).profit)
  /\ getDailyStats(Today).transactionCount = 0

\* C15: a reset that completes leaves the store in the form above (all amounts
\* 0, no transactions, today's stat zeroed), and no step of a reset changes a
\* store that is in that form: so a second reset in a row ends in the state
\* the first one ended in.
C15_ResetIdempotent ==
  [][/\ Done(1, "reset", 200)' => ResetForm'
     /\ (req'[1].op = "reset" /\ req'[1] # req[1] /\ ResetForm) => store' = store]_vars

\* a buy, then a reset, then a second reset that has completed: the log was
\* already empty when it arrived and it changed nothing
C15_Witness ==
  /\ Done(1, "reset", 200)
  /\ started = 3
  /\ getInventoryByCurrencyId(1) # Undef
  /\ DOMAIN req[1].pre.transactionsList = {}
  /\ Snapshot = req[1].pre

\* The stored positions that name a currency
PositionsOf(currencyId) ==
  {i \in DOMAIN inventoryItems : inventoryItems[i].currencyId = currencyId}

\* C16: when a create-currency request with a new code and rate r has been
\* answered 201 and no other request has run since, getCurrenciesWithInventory
\* returns the new currency, there is exactly one position of it, and that
\* position has amount 0 and avgBuyPrice r.
C16_CreatedCurrencyHasOnePosition ==
  Done(1, "createCurrency", 201) =>
    /\ req[1].res.id \in DOMAIN getCurrenciesWithInventory
    /\ getCurrenciesWithInventory[req[1].res.id].currency.code = req[1].code
    /\ Cardinality(PositionsOf(req[1].res.id)) = 1
    /\ getCurrenciesWithInventory[req[1].res.id].inventory # Undef
    /\ IsZero(getCurrenciesWithInventory[req[1].res.id].inventory.amount)
    /\ FEq(getCurrenciesWithInventory[req[1].res.id].inventory.avgBuyPrice, req[1].rate)

\* a currency with a code no stored currency had has been created, after
\* another request
C16_Witness ==
  /\ Done(1, "createCurrency", 201)
  /\ started >= 2
  /\ getCurrencyByCode(req[1].code) # Undef
  /\ \A i \in DOMAIN req[1].pre.currencies : req[1].pre.currencies[i].code # req[1].code

\* C17: with create-currency requests processed one at a time no two stored
\* currencies have the same code, and a create-currency whose code a stored
\* currency already had is answered 400 "Currency code already exists" and
\* has added neither a currency nor a position.
C17_CodesUnique ==
  /\ \A i, j \in DOMAIN currencies :
       currencies[i].code = currencies[j].code => i = j
  /\ (/\ req[1].op = "createCurrency" /\ req[1].pc = "done"
      /\ \E i \in DOMAIN req[1].pre.currencies :
           req[1].pre.currencies[i].code = req[1].code)
     => /\ req[1].res.status = 400
        /\ req[1].res.message = "Currency code already exists"
        /\ currencies = req[1].pre.currencies
        /\ inventoryItems = req[1].pre.inventoryItems

\* a code created on the way is sent again and rejected
C17_Witness ==
  /\ Done(1, "createCurrency", 400)
  /\ req[1].code = "CHF"
  /\ \E i \in DOMAIN currencies : i >= 5 /\ currencies[i].code = "CHF"

\* C18: a buy whose currencyId named no stored currency when it arrived is
\* answered 404 "Currency not found", a sell whose currency had no position
\* when it arrived is answered 404 "Inventory not found for this currency",
\* and either leaves the currencies, positions, transactions and Daily Stats
\* as they were: no position is created for the unknown currency.
C18_NotFoundChangesNothing ==
  /\ (/\ req[1].op = "buy" /\ req[1].pc = "done"
      /\ req[1].currencyId \notin DOMAIN req[1].pre.currencies)
     => /\ req[1].res.status = 404
        /\ req[1].res.message = "Currency not found"
        /\ Snapshot = req[1].pre
        /\ PositionsOf(req[1].currencyId) = {}
  /\ (/\ req[1].op = "sell" /\ req[1].pc = "done"
      /\ getInventoryByCurrencyIdIn(req[1].pre.inventoryItems, req[1].currencyId) = Undef)
     => /\ req[1].res.status = 404
        /\ req[1].res.message = "Inventory not found for this currency"
        /\ Snapshot = req[1].pre

\* a buy of a currency that does not exist has been answered, with
\* transactions of another currency in the store
C18_Witness ==
  /\ Done(1, "buy", 404)
  /\ req[1].currencyId \notin DOMAIN currencies
  /\ DOMAIN transactionsList # {}

\* C19: the total of every stored transaction is its amount times its rate.
C19_TotalIsAmountTimesRate ==
  \A t \in DOMAIN transactionsList :
    FEq(transactionsList[t].total,
        FMul(transactionsList[t].amount, transactionsList[t].rate))

\* C20: a buy of a positive amount at rate r of a currency whose position had
\* amount 0 when the buy arrived (or had no position yet) leaves that position
\* with avgBuyPrice exactly r, whatever average it had before.
C20_BuyOnEmptyPositionGivesRate ==
  (/\ Done(1, "buy", 201)
   /\ FPos(req[1].amount)
   /\ (Before(1) # Undef => IsZero(Before(1).amount)))
  => FEq(getInventoryByCurrencyId(req[1].currencyId).avgBuyPrice, req[1].rate)

\* C21: an update-rate request on a stored currency is answered 200, has set
\* that currency's current rate to the rate sent and has changed no other
\* currency, no position, no transaction and no Daily Stat; on an id that names
\* no currency it is answered 404 "Currency not found" and has changed nothing.
C21_UpdateRateChangesOnlyTheRate ==
  (req[1].op = "updateRate" /\ req[1].pc = "done") =>
    IF req[1].currencyId \in DOMAIN req[1].pre.currencies
    THEN /\ req[1].res.status = 200
         /\ currencies = [req[1].pre.currencies EXCEPT
                            ![req[1].currencyId] = [@ EXCEPT !.currentRate = req[1].rate]]
         /\ inventoryItems = req[1].pre.inventoryItems
         /\ transactionsList = req[1].pre.transactionsList
         /\ stats = req[1].pre.stats
    ELSE /\ req[1].res.status = 404
         /\ req[1].res.message = "Currency not found"
         /\ Snapshot = req[1].pre

\* the rate of a currency that has a position and a stored transaction has
\* been changed
C21_Witness ==
  /\ Done(1, "updateRate", 200)
  /\ ~FEq(currencies[req[1].currencyId].currentRate,
          req[1].pre.currencies[req[1].currencyId].currentRate)
  /\ getInventoryByCurrencyId(req[1].currencyId) # Undef
  /\ LogOf(req[1].currencyId) # {}

\* C22: a stored transaction is never modified, and removed only by the step
\* of a reset that clears the log; a buy or sell answered 201 has added exactly
\* one transaction to those stored when it arrived, a rejected one none, and
\* create-currency and update-rate leave the log as it is.
C22_TransactionsImmutable ==
  [][/\ \/ \A t \in DOMAIN transactionsList :
             t \in DOMAIN transactionsList' /\ transactionsList'[t] = transactionsList[t]
        \/ req'[1].op = "reset" /\ req'[1].pc = "done" /\ DOMAIN transactionsList' = {}
     /\ (req'[1].pc = "done" /\ req[1].pc # "done" /\ req'[1].op \in {"buy", "sell"}) =>
          IF req'[1].res.status = 201
          THEN \E t \in DOMAIN transactionsList' :
                 /\ t \notin DOMAIN req'[1].pre.transactionsList
                 /\ DOMAIN transactionsList' = DOMAIN req'[1].pre.transactionsList \cup {t}
                 /\ \A u \in DOMAIN req'[1].pre.transactionsList :
                      transactionsList'[u] = req'[1].pre.transactionsList[u]
          ELSE transactionsList' = req'[1].pre.transactionsList
     /\ (req'[1].pc = "done" /\ req'[1].op \in {"createCurrency", "updateRate"}) =>
          transactionsList' = req'[1].pre.transactionsList]_vars

\* a sell has been answered 201 with a transaction already in the log
C22_Witness ==
  /\ Done(1, "sell", 201)
  /\ Cardinality(DOMAIN transactionsList) >= 2
  /\ DOMAIN req[1].pre.transactionsList # {}

\* A position whose stored totalValue is its amount times its avgBuyPrice
InSync(item) ==
  /\ item.totalValue # Undef
  /\ FEq(item.totalValue, FMul(item.amount, item.avgBuyPrice))
  /\ IsZero(item.amount) => IsZero(item.totalValue)

\* C23: when a buy or a sell has been answered 201 the position of its
\* currency has totalValue = amount * avgBuyPrice, and when a reset has
\* completed so has every position of a stored currency; the totalValue is 0
\* whenever the amount is 0.
C23_TotalValueInSync ==
  /\ (Done(1, "buy", 201) \/ Done(1, "sell", 201)) =>
       /\ getInventoryByCurrencyId(req[1].currencyId) # Undef
       /\ InSync(getInventoryByCurrencyId(req[1].currencyId))
  /\ Done(1, "reset", 200) =>
       \A i \in DOMAIN inventoryItems :
         getCurrency(inventoryItems[i].currencyId) # Undef => InSync(inventoryItems[i])

\* a sell that left part of a position bought at a rate other than 1
C23_Witness ==
  /\ Done(1, "sell", 201)
  /\ FPos(getInventoryByCurrencyId(req[1].currencyId).amount)
  /\ ~FEq(getInventoryByCurrencyId(req[1].currencyId).totalValue,
          getInventoryByCurrencyId(req[1].currencyId).amount)

\* Two sells, both answered 201, that arrived on the same log and the same
\* stats, on a position that covers both
TwoSellsCovered ==
  /\ Done(1, "sell", 201)
  /\ Done(2, "sell", 201)
  /\ req[1].pre.transactionsList = req[2].pre.transactionsList
  /\ req[1].pre.stats = req[2].pre.stats
  /\ DOMAIN req[1].pre.transactionsList \subseteq DOMAIN transactionsList
  /\ ~FLt(Before(1).amount, FAdd(req[1].amount, req[2].amount))

\* The rows stored since the request of client c arrived
StoredSince(c) == DOMAIN transactionsList \ DOMAIN req[c].pre.transactionsList

\* C24: when two overlapping sells have both been answered 201, today's Daily
\* Stat is what the two sells processed one after the other leave: each sell
\* is folded in by createTransaction and again by the route, so the count has
\* grown by 2 and the profit by twice the sell's profit for each of them.
C24_NoLostStatUpdate ==
  TwoSellsCovered =>
    /\ stats[Today].transactionCount =
         req[1].pre.stats[Today].transactionCount + 2 * Cardinality(StoredSince(1))
    /\ FEq(stats[Today].profit,
           FAdd(req[1].pre.stats[Today].profit,
                FAdd(SumProfit(StoredSince(1)), SumProfit(StoredSince(1)))))

\* C25: once a reset and the buys and sells around it have completed, the
\* state is one that the requests processed one after the other can leave: in
\* every such state the amount of each position is what the stored
\* transactions of its currency add up to, so there is no position with an
\* amount whose transactions the reset deleted and no stored transaction
\* beside a position the reset zeroed.
C25_ResetAppearsAtomic ==
  (Quiescent /\ \E c \in Clients : Done(c, "reset", 200)) =>
    \A i \in DOMAIN inventoryItems :
      getCurrency(inventoryItems[i].currencyId) # Undef =>
        FEq(inventoryItems[i].amount,
            FSub(SumAmount(LogOfType(inventoryItems[i].currencyId, "BUY")),
                 SumAmount(LogOfType(inventoryItems[i].currencyId, "SELL"))))

\* C26: a sell on a position is refused for insufficient stock exactly when
\* the amount asked is strictly greater than the amount held at its arrival; a
\* sell of exactly the held amount is answered 201 and leaves amount 0 and the
\* avgBuyPrice as it was; and a sell of a positive amount on a position that
\* holds 0 is refused.
C26_StockCheckIsStrict ==
  (req[1].op = "sell" /\ req[1].pc = "done" /\ Before(1) # Undef) =>
    /\ FLt(Before(1).amount, req[1].amount) <=>
         (req[1].res.status = 400 /\ req[1].res.message = "Not enough currency in stock")
    /\ FEq(Before(1).amount, req[1].amount) =>
         /\ req[1].res.status = 201
         /\ IsZero(inventoryItems[Before(1).id].amount)
         /\ inventoryItems[Before(1).id].avgBuyPrice = Before(1).avgBuyPrice
    /\ (IsZero(Before(1).amount) /\ FPos(req[1].amount)) =>
         (req[1].res.status = 400 /\ inventoryItems[Before(1).id] = Before(1))

\* a sell on a position that a sell of exactly the held amount had emptied
\* has been refused
C26_Witness ==
  /\ Done(1, "sell", 400)
  /\ Before(1) # Undef
  /\ IsZero(Before(1).amount)
  /\ \E t \in LogOfType(req[1].currencyId, "SELL") :
       FEq(transactionsList[t].amount, SumAmount(LogOfType(req[1].currencyId, "BUY")))

\* C27: a reset that has completed has deleted no currency and no position,
\* has changed no currency's code or current rate and no position's currency,
\* and has left the Daily Stat of every date other than today with the profit
\* and transactionCount it had; here in SqliteStorage.
C27_ResetKeepsRowsAndOtherDays ==
  Done(1, "reset", 200) =>
    /\ currencies = req[1].pre.currencies
    /\ DOMAIN inventoryItems = DOMAIN req[1].pre.inventoryItems
    /\ \A i \in DOMAIN inventoryItems :
         inventoryItems[i].currencyId = req[1].pre.inventoryItems[i].currencyId
    /\ \A d \in DOMAIN req[1].pre.stats :
         d # Today => (d \in DOMAIN stats /\ stats[d] = req[1].pre.stats[d])

\* C28: in every state, whatever the interleaving of create-currency and buy
\* requests, at most one position names each currency.
C28_OnePositionPerCurrency ==
  \A k \in DOMAIN currencies : Cardinality(PositionsOf(k)) <= 1

\* C29: when two create-currency requests carrying the same code have both
\* been answered, at most one of them was answered 201 and at most one stored
\* currency has that code.
C29_SameCodeCreatedOnce ==
  (/\ req[1].op = "createCurrency" /\ req[1].pc = "done"
   /\ req[2].op = "createCurrency" /\ req[2].pc = "done"
   /\ req[1].code = req[2].code)
  => /\ ~(req[1].res.status = 201 /\ req[2].res.status = 201)
     /\ Cardinality({i \in DOMAIN currencies : currencies[i].code = req[1].code}) <= 1

\* The amount the log of a currency accounts for up to and including row t
HeldAfter(currencyId, t) ==
  FSub(SumAmount({u \in LogOfType(currencyId, "BUY") : u <= t}),
       SumAmount({u \in LogOfType(currencyId, "SELL") : u <= t}))

\* The buys of a currency stored since its position last held 0 (at the
\* start, after a reset, or after a sell of all that was held)
BuysSinceEmpty(currencyId) ==
  LET empty == {t \in LogOf(currencyId) : IsZero(HeldAfter(currencyId, t))}
  IN  {t \in LogOfType(currencyId, "BUY") : \A z \in empty : z < t}

\* C30: between requests processed one at a time, a position that holds a
\* positive amount has a positive avgBuyPrice that is no lower than the lowest
\* and no higher than the highest rate of the buys of its currency since the
\* position last held 0.
C30_AverageWithinBuyRates ==
  Quiescent =>
    \A i \in DOMAIN inventoryItems :
      (getCurrency(inventoryItems[i].currencyId) # Undef /\ FPos(inventoryItems[i].amount)) =>
        /\ FPos(inventoryItems[i].avgBuyPrice)
        /\ \E t \in BuysSinceEmpty(inventoryItems[i].currencyId) :
             ~FLt(inventoryItems[i].avgBuyPrice, transactionsList[t].rate)
        /\ \E t \in BuysSinceEmpty(inventoryItems[i].currencyId) :
             ~FLt(transactionsList[t].rate, inventoryItems[i].avgBuyPrice)

=============================================================================
